---- MODULE Spec2Model ----
(***************************************************************************)
(* DRTP file transfer (src/src/application.py): a client (send_file) and a *)
(* server (receive_file) exchanging datagrams over UDP.  The two roles are  *)
(* single-threaded; each blocks only in recvfrom, so one action is the code *)
(* a role runs from one recvfrom to the next.  The network is a pair of     *)
(* datagram queues that may lose, duplicate and reorder.                    *)
(***************************************************************************)
EXTENDS Integers, Sequences, FiniteSets, TLC

\* ------------------------------------------------------------- bounds
\* Bounds of the adversarial-network specification (Spec).
MaxWindow == 3
MaxChunks == 2
MaxFaults == 2
\* Bounds of the well-behaved-network specification (FairSpec).
RelMaxWindow == 4
RelMaxChunks == 5
\* Transmission counters (history) saturate here.
TxCap == 3

\* ------------------------------------------------------------- constants
\* The largest value of a header field: format character H, 16 bits unsigned.
MaxField == 65535

syn_flag == 8
ack_flag == 4
fin_flag == 2
\* float('inf'): a discard value no sequence number ever equals.
inf == 65536

\* ------------------------------------------------------------- header codec
RECURSIVE BitAnd(_, _)
BitAnd(a, b) ==
    IF a = 0 \/ b = 0 THEN 0
    ELSE (a % 2) * (b % 2) + 2 * BitAnd(a \div 2, b \div 2)

RECURSIVE BitOr(_, _)
BitOr(a, b) ==
    IF a = 0 THEN b
    ELSE IF b = 0 THEN a
    ELSE (IF a % 2 = 1 \/ b % 2 = 1 THEN 1 ELSE 0) + 2 * BitOr(a \div 2, b \div 2)

\* struct.pack('<HHH', ...): the low byte of each field first.
pack_header_little(s, a, f) ==
    << s % 256, s \div 256, a % 256, a \div 256, f % 256, f \div 256 >>

\* struct.pack('!HHH', ...): three big-endian unsigned shorts, 6 bytes.
pack_header(s, a, f) ==
    << s \div 256, s % 256, a \div 256, a % 256, f \div 256, f % 256 >>

\* struct.unpack('!HHH', ...)
unpack_header(h) ==
    << h[1] * 256 + h[2], h[3] * 256 + h[4], h[5] * 256 + h[6] >>

\* packet[:6], and recvfrom(6) of a longer datagram (the excess is cut off)
Header(p) == SubSeq(p, 1, 6)

\* packet[6:]
Payload(p) == SubSeq(p, 7, Len(p))

\* split_file: chunk i of the file; distinct chunks are told apart by i.
Chunk(i) == << i >>

\* file_name.encode(): the payload of the name segment
NameBytes == << 0 >>

\* ------------------------------------------------------------- state
VARIABLES
    args,         \* the run: window (-w), discard (-d), the file's chunk count, and
                  \* what the network may do (kinds of fault, how many in all)
    net,          \* how many faults the network may still commit
    toServer,     \* datagrams in flight, client to server
    toClient,     \* datagrams in flight, server to client
    c_pc,         \* send_file: where the client is
    seq,          \* send_file: seq
    window_size,  \* send_file: window_size (the list of in-flight sequence numbers)
    packet_dict,  \* send_file: packet_dict (sequence number -> packet bytes)
    s_pc,         \* receive_file: where the server is
    ack,          \* receive_file: ack (next expected sequence number)
    discard,      \* receive_file: discard
    new_file,     \* receive_file: the bytes written to new_file
    file_name,    \* receive_file: file_name (<<>> while unbound)
    tx,           \* history: transmissions of each sequence number by the client
    rto,          \* history: of those, retransmissions caused by a timeout
    acked,        \* history: sequence numbers the client popped from the window
    ctl,          \* history: SYNs, handshake ACKs and FINs the client sent
    sctl,         \* history: SYN-ACKs and FIN-ACKs the server sent
    codec,        \* a header triple, its pack_header bytes, their unpack_header
    ackLog,       \* history: <<seq, ack>> of every data ACK the server sent
    ackCount,     \* history: data ACKs the server sent per sequence number
    written,      \* history: sequence numbers whose payload the server wrote
    rcvd          \* history: <<packet, ack before>> of the last data-loop receive

vars == << args, codec, net, toServer, toClient, c_pc, seq, window_size, packet_dict,
           s_pc, ack, discard, new_file, file_name,
           tx, rto, acked, ctl, sctl, ackLog, ackCount, written, rcvd >>

clientVars == << c_pc, seq, window_size, packet_dict, tx, rto, acked, ctl >>
serverVars == << s_pc, ack, discard, new_file, file_name, sctl, ackLog, ackCount,
                 written, rcvd >>

\* os.path.getsize(file) // 994 + (1 if ... % 994 else 0): the number of chunks
last_loop == args.chunks

\* The sequence numbers of the data-bearing segments: the name (1), then the chunks.
Seqs == 1 .. (last_loop + 1)

\* The source file, chunk by chunk.
SourceFile == [ i \in 1 .. last_loop |-> i ]

\* A history counter, saturating at TxCap.
Sat(n) == IF n < TxCap THEN n + 1 ELSE n

\* The receiver's counter after ack += 1.  Above every sequence number the client
\* can send (last_loop + 1) its value no longer decides any comparison on either
\* side, so it is held at last_loop + 3 to keep the state space finite.
AckCap == last_loop + 3
Bump(a) == IF a < AckCap THEN a + 1 ELSE a

\* A datagram queue without its i-th datagram (received, or lost).
Remove(ch, i) == [ j \in 1 .. (Len(ch) - 1) |-> IF j < i THEN ch[j] ELSE ch[j + 1] ]

\* The network may still commit a fault of kind k.
May(k) == k \in args.kinds /\ net > 0

\* Which datagram a recvfrom may return: the oldest, or a later one when the
\* network reorders (a fault).
RecvIdx(ch) == IF May("reorder") THEN DOMAIN ch ELSE DOMAIN ch \cap {1}
Delivered(i) == net' = IF i = 1 THEN net ELSE net - 1

\* Nothing in flight in either direction.
Quiet == toServer = << >> /\ toClient = << >>

\* The network's report that a datagram reached a port nobody listens on any more
\* (ICMP port unreachable).  Where the platform hands it to the socket, the next
\* recvfrom raises ConnectionResetError.  It travels with the datagrams but is none.
RST == << -1 >>

\* closed: the socket was closed at the end; aborted: close and sys.exit in a
\* handler; returned: the flag test failed; crashed: an exception nobody catches.
ClientDone == c_pc \in {"closed", "aborted", "returned", "crashed"}
ServerDone == s_pc \in {"closed", "crashed", "returned"}

\* ------------------------------------------------------------- client (send_file)
\* Admit with a fault: the sequence number is appended whatever the window holds.
Admit_always(w, s) == Append(w, s)

\* if len(window_size) < window: window_size.append(seq)
Admit(w, s) == IF Len(w) < args.window THEN Append(w, s) ELSE w

\* while len(window_size) == window or seq-1 == last_loop and len(window_size) != 0
Draining(w, s) == Len(w) = args.window \/ (s - 1 = last_loop /\ Len(w) # 0)

\* HeadAcked with a fault: the acknowledgment's ack field is not compared.
HeadAcked_seqonly(server_seq, a, w) == server_seq = w[1]

\* if server_seq == ack == window_size[0]
HeadAcked(server_seq, a, w) == server_seq = a /\ a = w[1]

\* Resend with a fault: the head of the window alone is sent again.
Resend_head(w, d) == << d[w[1]] >>

\* for key in window_size: sendto(packet_dict[key])
Resend(w, d) == [ i \in 1 .. Len(w) |-> d[w[i]] ]

\* History: the transmission counters after the data-bearing packets pkts were sent.
Count(c, pkts) ==
    [ k \in DOMAIN c |->
        IF \E j \in DOMAIN pkts : unpack_header(Header(pkts[j]))[1] = k
        THEN Sat(c[k]) ELSE c[k] ]

\* The end of one pass of the drain loop: stay in it, or seq += 1 and the next chunk.
AfterDrain(w) ==
    IF Draining(w, seq)
    THEN c_pc' = "drain" /\ seq' = seq
    ELSE c_pc' = "loop" /\ seq' = seq + 1

\* sendto(pack_header(0, 0, syn_flag))
ClientSyn ==
    /\ c_pc = "start"
    /\ toServer' = Append(toServer, pack_header(0, 0, syn_flag))
    /\ ctl' = [ctl EXCEPT !.syn = Sat(@)]
    /\ c_pc' = "syn_sent"
    /\ UNCHANGED << args, codec, net, toClient, seq, window_size, packet_dict,
                    tx, rto, acked, serverVars >>

\* recvfrom(6) of the SYN-ACK; on it the ACK and the name segment are sent.
ClientSynAck(i) ==
    /\ c_pc = "syn_sent"
    /\ i \in DOMAIN toClient
    /\ toClient[i] # RST
    /\ LET flags == unpack_header(Header(toClient[i]))[3]
           name == pack_header(1, 0, ack_flag) \o NameBytes
       IN IF BitAnd(flags, syn_flag) # 0 /\ BitAnd(flags, ack_flag) # 0
          THEN /\ toServer' = toServer \o << pack_header(0, 0, ack_flag), name >>
               /\ packet_dict' = (1 :> name)
               /\ window_size' = << 1 >>
               /\ tx' = Count(tx, << name >>)
               /\ ctl' = [ctl EXCEPT !.hs = Sat(@)]
               /\ seq' = 2
               /\ c_pc' = "loop"
          ELSE /\ c_pc' = "returned"
               /\ UNCHANGED << toServer, packet_dict, window_size, tx, ctl, seq >>
    /\ toClient' = Remove(toClient, i)
    /\ UNCHANGED << args, codec, rto, acked, serverVars >>
    /\ Delivered(i)

\* One pass of "for data_chunk in split_file(file)" up to the drain loop.
ClientSendChunk ==
    /\ c_pc = "loop"
    /\ seq - 1 <= last_loop
    /\ LET w == Admit(window_size, seq)
           packet == pack_header(seq, 0, ack_flag) \o Chunk(seq - 1)
       IN /\ window_size' = w
          /\ packet_dict' = [ k \in DOMAIN packet_dict \cup {seq} |->
                                IF k = seq THEN packet ELSE packet_dict[k] ]
          /\ toServer' = Append(toServer, packet)
          /\ tx' = Count(tx, << packet >>)
          /\ AfterDrain(w)
    /\ UNCHANGED << args, codec, net, toClient, rto, acked, ctl, serverVars >>

\* recvfrom(6) inside the drain loop.
ClientAck(i) ==
    /\ c_pc = "drain"
    /\ i \in DOMAIN toClient
    /\ toClient[i] # RST
    /\ LET h == unpack_header(Header(toClient[i]))
           server_seq == h[1]
           a == h[2]
           flags == h[3]
       IN IF BitAnd(flags, ack_flag) # 0
          THEN IF HeadAcked(server_seq, a, window_size)
               THEN /\ packet_dict' = [ k \in DOMAIN packet_dict \ {window_size[1]}
                                          |-> packet_dict[k] ]
                    /\ window_size' = Tail(window_size)
                    /\ acked' = acked \cup {window_size[1]}
                    /\ AfterDrain(Tail(window_size))
                    /\ UNCHANGED << toServer, tx >>
               ELSE \* raise ValueError: handled like a timeout
                    /\ toServer' = toServer \o Resend(window_size, packet_dict)
                    /\ tx' = Count(tx, Resend(window_size, packet_dict))
                    /\ AfterDrain(window_size)
                    /\ UNCHANGED << packet_dict, window_size, acked >>
          ELSE /\ AfterDrain(window_size)
               /\ UNCHANGED << toServer, tx, packet_dict, window_size, acked >>
    /\ toClient' = Remove(toClient, i)
    /\ UNCHANGED << args, codec, rto, ctl, serverVars >>
    /\ Delivered(i)

\* Leaving the for loop: the first FIN.
ClientFin ==
    /\ c_pc = "loop"
    /\ seq - 1 > last_loop
    /\ toServer' = Append(toServer, pack_header(0, 0, fin_flag))
    /\ ctl' = [ctl EXCEPT !.fin = Sat(@)]
    /\ c_pc' = "fin_wait"
    /\ UNCHANGED << args, codec, net, toClient, seq, window_size, packet_dict,
                    tx, rto, acked, serverVars >>

\* recvfrom(6) inside the teardown loop.
ClientFinAck(i) ==
    /\ c_pc = "fin_wait"
    /\ i \in DOMAIN toClient
    /\ toClient[i] # RST
    /\ LET flags == unpack_header(Header(toClient[i]))[3]
       IN IF BitAnd(flags, fin_flag) # 0 /\ BitAnd(flags, ack_flag) # 0
          THEN c_pc' = "closed" /\ UNCHANGED << toServer, ctl >>
          ELSE /\ c_pc' = "fin_wait"
               /\ toServer' = Append(toServer, pack_header(0, 0, fin_flag))
               /\ ctl' = [ctl EXCEPT !.fin = Sat(@)]
    /\ toClient' = Remove(toClient, i)
    /\ UNCHANGED << args, codec, seq, window_size, packet_dict,
                    tx, rto, acked, serverVars >>
    /\ Delivered(i)

\* A handshake that tries the SYN once more before it gives up.
OnSynTimeout_resend ==
    /\ c_pc = "syn_sent"
    /\ toServer' = Append(toServer, pack_header(0, 0, syn_flag))
    /\ ctl' = [ctl EXCEPT !.syn = Sat(@)]
    /\ c_pc' = "aborted"
    /\ UNCHANGED << tx, rto >>

\* except TimeoutError while waiting for the SYN-ACK: close and sys.exit.
OnSynTimeout ==
    /\ c_pc = "syn_sent"
    /\ c_pc' = "aborted"
    /\ UNCHANGED << toServer, tx, rto, ctl >>

\* except (TimeoutError, ValueError) in the drain loop: the window is resent.
OnDrainTimeout ==
    /\ c_pc = "drain"
    /\ toServer' = toServer \o Resend(window_size, packet_dict)
    /\ tx' = Count(tx, Resend(window_size, packet_dict))
    /\ rto' = Count(rto, Resend(window_size, packet_dict))
    /\ c_pc' = "drain"
    /\ UNCHANGED ctl

\* A teardown that closes on the first timeout instead of sending the FIN again.
OnFinTimeout_giveup ==
    /\ c_pc = "fin_wait"
    /\ c_pc' = "closed"
    /\ UNCHANGED << toServer, tx, rto, ctl >>

\* except TimeoutError in the teardown loop: continue, which sends the FIN again.
OnFinTimeout ==
    /\ c_pc = "fin_wait"
    /\ toServer' = Append(toServer, pack_header(0, 0, fin_flag))
    /\ ctl' = [ctl EXCEPT !.fin = Sat(@)]
    /\ c_pc' = "fin_wait"
    /\ UNCHANGED << tx, rto >>

\* TimeoutError out of the client's recvfrom (0.5 s), at whichever recvfrom it waits.
OnTimeout ==
    /\ \/ OnSynTimeout
       \/ OnDrainTimeout
       \/ OnFinTimeout
    /\ UNCHANGED << args, codec, toClient, seq, window_size, packet_dict, acked, serverVars >>

\* The 0.5 s timer expiring with no datagram on its way in either direction.
ClientTimeout ==
    /\ Quiet
    /\ OnTimeout
    /\ UNCHANGED net

\* The 0.5 s timer expiring although a datagram is still on its way.
PrematureTimeout ==
    /\ ~Quiet
    /\ May("rto")
    /\ OnTimeout
    /\ net' = net - 1

\* ClientReset with a fault: the drain loop treats the report like a timeout.
ClientReset_resend(i) ==
    /\ c_pc \in {"syn_sent", "drain", "fin_wait"}
    /\ i \in DOMAIN toClient
    /\ toClient[i] = RST
    /\ c_pc' = IF c_pc = "fin_wait" THEN "crashed" ELSE IF c_pc = "drain" THEN "drain"
               ELSE "aborted"
    /\ toServer' = IF c_pc = "drain" THEN toServer \o Resend(window_size, packet_dict)
                   ELSE toServer
    /\ tx' = IF c_pc = "drain" THEN Count(tx, Resend(window_size, packet_dict)) ELSE tx
    /\ toClient' = Remove(toClient, i)
    /\ UNCHANGED << args, codec, seq, window_size, packet_dict, rto, acked, ctl, serverVars >>
    /\ Delivered(i)

\* ConnectionResetError out of the client's recvfrom.  The handshake and the drain
\* loop catch it (close, sys.exit); the teardown loop catches TimeoutError only.
ClientReset(i) ==
    /\ c_pc \in {"syn_sent", "drain", "fin_wait"}
    /\ i \in DOMAIN toClient
    /\ toClient[i] = RST
    /\ c_pc' = IF c_pc = "fin_wait" THEN "crashed" ELSE "aborted"
    /\ toClient' = Remove(toClient, i)
    /\ UNCHANGED << args, codec, toServer, seq, window_size, packet_dict, tx, rto, acked, ctl,
                    serverVars >>
    /\ Delivered(i)

\* ------------------------------------------------------------- server (receive_file)
\* if seq == 1
IsName(s) == s = 1

\* InOrder with a fault: the comparison is off by one; every segment passes; a
\* segment at or below the counter passes; a segment at or above it passes.
InOrder_next(s, a) == s = a + 1
InOrder_any(s, a) == TRUE
InOrder_le(s, a) == s <= a
InOrder_ahead(s, a) == s >= a

\* if seq == ack
InOrder(s, a) == s = a

\* Discarded with a fault: the test hook never fires.
Discarded_never(s, d) == FALSE

\* if seq == discard
Discarded(s, d) == s = d

\* AfterDiscard with a fault: the discard value is kept.
AfterDiscard_kept(d) == d

\* discard = float('inf')
AfterDiscard(d) == inf

\* send_ack_packet(socket, address, seq, ack)
send_ack_packet(s, a) == pack_header(s, a, ack_flag)

\* ServerSyn with a fault: a first segment without SYN is skipped and the server
\* waits for the next one.
ServerSyn_relisten(i) ==
    /\ s_pc = "listen"
    /\ i \in DOMAIN toServer
    /\ LET flags == unpack_header(Header(toServer[i]))[3]
       IN IF BitAnd(flags, syn_flag) # 0
          THEN /\ toClient' = Append(toClient, pack_header(0, 0, BitOr(syn_flag, ack_flag)))
               /\ sctl' = [sctl EXCEPT !.synack = Sat(@)]
               /\ s_pc' = "syn_rcvd"
          ELSE /\ s_pc' = "listen"
               /\ UNCHANGED << toClient, sctl >>
    /\ toServer' = Remove(toServer, i)
    /\ UNCHANGED << args, codec, clientVars, ack, discard, new_file, file_name,
                    ackLog, ackCount, written, rcvd >>
    /\ Delivered(i)

\* recvfrom(6) of the SYN, no timeout.
ServerSyn(i) ==
    /\ s_pc = "listen"
    /\ i \in DOMAIN toServer
    /\ LET flags == unpack_header(Header(toServer[i]))[3]
       IN IF BitAnd(flags, syn_flag) # 0
          THEN /\ toClient' = Append(toClient, pack_header(0, 0, BitOr(syn_flag, ack_flag)))
               /\ sctl' = [sctl EXCEPT !.synack = Sat(@)]
               /\ s_pc' = "syn_rcvd"
          ELSE /\ s_pc' = "returned"
               /\ UNCHANGED << toClient, sctl >>
    /\ toServer' = Remove(toServer, i)
    /\ UNCHANGED << args, codec, clientVars, ack, discard, new_file, file_name,
                    ackLog, ackCount, written, rcvd >>
    /\ Delivered(i)

\* recvfrom(6) of the handshake ACK; new_file is opened and ack = 1.  Any segment
\* with the ACK flag passes, a data-bearing one included: its first 6 bytes are read.
ServerAck(i) ==
    /\ s_pc = "syn_rcvd"
    /\ i \in DOMAIN toServer
    /\ LET flags == unpack_header(Header(toServer[i]))[3]
       IN IF BitAnd(flags, ack_flag) # 0
          THEN s_pc' = "data"
          ELSE s_pc' = "returned"
    /\ toServer' = Remove(toServer, i)
    /\ UNCHANGED << args, codec, clientVars, toClient, ack, discard, new_file, file_name,
                    sctl, ackLog, ackCount, written, rcvd >>
    /\ Delivered(i)

\* One pass of the data loop "while True: packet, _ = recvfrom(1000) ...", and on a
\* FIN what follows the loop: the FIN-ACK, then the rename that reads file_name.
ServerData(i) ==
    /\ s_pc = "data"
    /\ i \in DOMAIN toServer
    /\ LET packet == toServer[i]
           h == unpack_header(Header(packet))
           s == h[1]
           flags == h[3]
       IN /\ rcvd' = [ pkt |-> packet, ack |-> ack, discard |-> discard ]
          /\ IF Discarded(s, discard)
             THEN /\ discard' = AfterDiscard(discard)
                  /\ UNCHANGED << s_pc, toClient, ack, new_file, file_name,
                                  sctl, ackLog, ackCount, written >>
             ELSE IF BitAnd(flags, fin_flag) # 0
             THEN /\ toClient' = Append(toClient, pack_header(0, 0, BitOr(fin_flag, ack_flag)))
                  /\ sctl' = [sctl EXCEPT !.finack = Sat(@)]
                  /\ s_pc' = IF file_name = << >> THEN "crashed" ELSE "closed"
                  /\ UNCHANGED << discard, ack, new_file, file_name,
                                  ackLog, ackCount, written >>
             ELSE IF IsName(s)
             THEN /\ file_name' = Payload(packet)
                  /\ toClient' = Append(toClient, send_ack_packet(s, ack))
                  /\ ackLog' = ackLog \cup { << s, ack >> }
                  /\ ackCount' = [ackCount EXCEPT ![s] = Sat(@)]
                  /\ ack' = Bump(ack)
                  /\ UNCHANGED << s_pc, discard, new_file, sctl, written >>
             ELSE IF InOrder(s, ack)
             THEN /\ toClient' = Append(toClient, send_ack_packet(s, ack))
                  /\ ackLog' = ackLog \cup { << s, ack >> }
                  /\ ackCount' = [ackCount EXCEPT ![s] = Sat(@)]
                  /\ new_file' = new_file \o Payload(packet)
                  /\ written' = Append(written, s)
                  /\ ack' = Bump(ack)
                  /\ UNCHANGED << s_pc, discard, file_name, sctl >>
             ELSE UNCHANGED << s_pc, toClient, discard, ack, new_file, file_name,
                               sctl, ackLog, ackCount, written >>
    /\ toServer' = Remove(toServer, i)
    /\ UNCHANGED << args, codec, clientVars >>
    /\ Delivered(i)

\* TimeoutError out of the server's recvfrom (5 s, uncaught).  The client sends
\* again within 0.5 s wherever it waits, so 5 s of silence means it has ended.
ServerTimeout ==
    /\ s_pc \in {"syn_rcvd", "data"}
    /\ toServer = << >>
    /\ ClientDone
    /\ s_pc' = "crashed"
    /\ UNCHANGED << args, codec, net, toServer, toClient, clientVars, ack, discard, new_file,
                    file_name, sctl, ackLog, ackCount, written, rcvd >>

\* ------------------------------------------------------------- network
\* A datagram for a role that has ended reaches no recvfrom.  Whether the client's
\* socket is told depends on the platform, so both outcomes are possible.
ServerGone ==
    /\ ServerDone
    /\ toServer # << >>
    /\ toServer' = Tail(toServer)
    /\ \/ UNCHANGED toClient
       \/ toClient' = Append(toClient, RST)
    /\ UNCHANGED << args, codec, net, clientVars, serverVars >>

\* The server's socket learns nothing it acts on: a report to it would raise in
\* recvfrom uncaught, the state ServerTimeout reaches from the same situation.
ClientGone ==
    /\ ClientDone
    /\ toClient # << >>
    /\ toClient' = Tail(toClient)
    /\ UNCHANGED << args, codec, net, toServer, clientVars, serverVars >>

\* A data-bearing segment (sequence >= 1) is lost on its way to the server.
LoseData(i) ==
    /\ May("data")
    /\ i \in DOMAIN toServer
    /\ unpack_header(Header(toServer[i]))[1] >= 1
    /\ toServer' = Remove(toServer, i)
    /\ net' = net - 1
    /\ UNCHANGED << args, codec, toClient, clientVars, serverVars >>

\* A data acknowledgment (sequence >= 1) is lost on its way to the client.
LoseAck(i) ==
    /\ May("ack")
    /\ i \in DOMAIN toClient
    /\ toClient[i] # RST
    /\ unpack_header(Header(toClient[i]))[1] >= 1
    /\ toClient' = Remove(toClient, i)
    /\ net' = net - 1
    /\ UNCHANGED << args, codec, toServer, clientVars, serverVars >>

\* The flags of a FIN-ACK.
IsFinAck(p) ==
    /\ BitAnd(unpack_header(Header(p))[3], fin_flag) # 0
    /\ BitAnd(unpack_header(Header(p))[3], ack_flag) # 0

\* A control segment (sequence 0: SYN, SYN-ACK, ACK, FIN, FIN-ACK) is lost.
LoseCtlToServer(i) ==
    /\ May("ctl")
    /\ i \in DOMAIN toServer
    /\ unpack_header(Header(toServer[i]))[1] = 0
    /\ toServer' = Remove(toServer, i)
    /\ net' = net - 1
    /\ UNCHANGED << args, codec, toClient, clientVars, serverVars >>

\* Kind "finack" permits the loss of a FIN-ACK and of no other control segment.
LoseCtlToClient(i) ==
    /\ i \in DOMAIN toClient
    /\ toClient[i] # RST
    /\ unpack_header(Header(toClient[i]))[1] = 0
    /\ May("ctl") \/ (May("finack") /\ IsFinAck(toClient[i]))
    /\ toClient' = Remove(toClient, i)
    /\ net' = net - 1
    /\ UNCHANGED << args, codec, toServer, clientVars, serverVars >>

\* The server's first recvfrom takes a datagram from any sender.  Before the
\* client starts, a late FIN or ACK of an earlier transfer reaches the port.
StrayToServer(f) ==
    /\ May("stray")
    /\ c_pc = "start"
    /\ s_pc = "listen"
    /\ toServer = << >>
    /\ toServer' = << pack_header(0, 0, f) >>
    /\ net' = net - 1
    /\ UNCHANGED << args, codec, toClient, clientVars, serverVars >>

\* The network delivers a datagram twice.
DupToServer(i) ==
    /\ May("dup")
    /\ i \in DOMAIN toServer
    /\ toServer' = Append(toServer, toServer[i])
    /\ net' = net - 1
    /\ UNCHANGED << args, codec, toClient, clientVars, serverVars >>

DupToClient(i) ==
    /\ May("dup")
    /\ i \in DOMAIN toClient
    /\ toClient[i] # RST
    /\ toClient' = Append(toClient, toClient[i])
    /\ net' = net - 1
    /\ UNCHANGED << args, codec, toServer, clientVars, serverVars >>

\* ------------------------------------------------------------- specifications
\* Both roles before their first statement, with the command line's arguments.
StartRoles(W, N, d, kinds, n) ==
    /\ args = [ window |-> W, chunks |-> N, discard |-> d, kinds |-> kinds, faults |-> n ]
    /\ net = n
    /\ toServer = << >>
    /\ toClient = << >>
    /\ c_pc = "start"
    /\ seq = 0
    /\ window_size = << >>
    /\ packet_dict = << >>
    /\ s_pc = "listen"
    /\ ack = 1
    /\ discard = d
    /\ new_file = << >>
    /\ file_name = << >>
    /\ tx = [ k \in 1 .. (N + 1) |-> 0 ]
    /\ rto = [ k \in 1 .. (N + 1) |-> 0 ]
    /\ acked = {}
    /\ ctl = [ syn |-> 0, hs |-> 0, fin |-> 0 ]
    /\ sctl = [ synack |-> 0, finack |-> 0 ]
    /\ ackLog = {}
    /\ ackCount = [ k \in 1 .. (N + 1) |-> 0 ]
    /\ written = << >>
    /\ rcvd = [ pkt |-> << >>, ack |-> 0, discard |-> inf ]

Start(W, N, d, kinds, n) ==
    /\ StartRoles(W, N, d, kinds, n)
    /\ codec = [ pc |-> "idle", in |-> << 0, 0, 0 >>, header |-> << >>, out |-> << >> ]

\* What a network may do to datagrams and timers: everything, or lose datagrams
\* and deliver so late that the client's timer expires first.
AllKinds == {"data", "ack", "ctl", "dup", "reorder", "rto", "stray"}
LossKinds == {"data", "ack", "ctl", "rto"}

\* Any window, file and discard value, on a network that commits up to MaxFaults
\* faults: lost, duplicated or reordered datagrams, a client timer expiring early.
\* A discard value is an injected loss and counts as one of the faults.
Init ==
    \E W \in 1 .. MaxWindow, N \in 0 .. MaxChunks, kinds \in {AllKinds, LossKinds} :
        \E d \in {inf} \cup (0 .. (N + 1)) :
            Start(W, N, d, kinds, IF d = inf THEN MaxFaults ELSE MaxFaults - 1)

\* In-order delivery with at most one fault: none, one lost data segment, one lost
\* data acknowledgment, one lost FIN-ACK, or a discard value.
InitReliable ==
    \E W \in 1 .. RelMaxWindow, N \in 0 .. RelMaxChunks :
        \/ Start(W, N, inf, {}, 0)
        \/ Start(W, N, inf, {"data"}, 1)
        \/ Start(W, N, inf, {"ack"}, 1)
        \/ Start(W, N, inf, {"finack"}, 1)
        \/ \E d \in 1 .. (N + 1) : Start(W, N, d, {}, 0)

ClientStep ==
    \/ ClientSyn
    \/ \E i \in RecvIdx(toClient) : ClientSynAck(i)
    \/ ClientSendChunk
    \/ \E i \in RecvIdx(toClient) : ClientAck(i)
    \/ ClientFin
    \/ \E i \in RecvIdx(toClient) : ClientFinAck(i)
    \/ \E i \in RecvIdx(toClient) : ClientReset(i)

ServerStep ==
    \/ \E i \in RecvIdx(toServer) : ServerSyn(i)
    \/ \E i \in RecvIdx(toServer) : ServerAck(i)
    \/ \E i \in RecvIdx(toServer) : ServerData(i)

NextReliable ==
    \/ ClientStep
    \/ ServerStep
    \/ ClientTimeout
    \/ ServerGone
    \/ ClientGone
    \/ \E i \in DOMAIN toServer : LoseData(i)
    \/ \E i \in DOMAIN toClient : LoseAck(i)
    \/ \E i \in DOMAIN toClient : LoseCtlToClient(i)

Next ==
    \/ NextReliable
    \/ PrematureTimeout
    \/ ServerTimeout
    \/ \E i \in DOMAIN toServer : LoseCtlToServer(i)
    \/ \E f \in {fin_flag, ack_flag} : StrayToServer(f)
    \/ \E i \in DOMAIN toServer : DupToServer(i)
    \/ \E i \in DOMAIN toClient : DupToClient(i)

Spec == Init /\ [][Next]_vars

\* ------------------------------------------------------------- the header codec alone
\* A header of fields seq, ack, flags goes through pack_header.
Pack ==
    /\ codec.pc = "in"
    /\ codec' = [codec EXCEPT !.pc = "packed",
                              !.header = pack_header(codec.in[1], codec.in[2], codec.in[3])]
    /\ UNCHANGED << args, net, toServer, toClient, clientVars, serverVars >>

\* The 6 bytes go through unpack_header.
Unpack ==
    /\ codec.pc = "packed"
    /\ Len(codec.header) = 6
    /\ codec' = [codec EXCEPT !.pc = "out", !.out = unpack_header(codec.header)]
    /\ UNCHANGED << args, net, toServer, toClient, clientVars, serverVars >>

\* One field takes every 16-bit value while the two others sit at an end of the
\* range; both roles stay unstarted.
InitCodec ==
    \E field \in 1 .. 3, v \in 0 .. MaxField, rest \in {0, MaxField} :
        /\ StartRoles(1, 0, inf, {}, 0)
        /\ codec = [ pc |-> "in", in |-> [ k \in 1 .. 3 |-> IF k = field THEN v ELSE rest ],
                     header |-> << >>, out |-> << >> ]

NextCodec == Pack \/ Unpack

CodecSpec == InitCodec /\ [][NextCodec]_vars

\* Both roles keep running and the network keeps delivering; a loss is never owed.
FairSpec ==
    /\ InitReliable
    /\ [][NextReliable]_vars
    /\ WF_vars(ClientStep)
    /\ WF_vars(ServerStep)
    /\ WF_vars(ClientTimeout)
    /\ WF_vars(ServerGone)

\* ------------------------------------------------------------- the runs claims speak of
\* No loss, no reordering, no discard value, no early timeout.
NoFaultRun == args.discard = inf /\ args.faults = 0

\* The only fault of the run is one lost data-bearing segment, and it has happened.
OneDataLost == args.discard = inf /\ args.kinds = {"data"} /\ args.faults = 1 /\ net = 0

\* The only fault of the run is one lost data acknowledgment, and it has happened.
OneAckLost == args.discard = inf /\ args.kinds = {"ack"} /\ args.faults = 1 /\ net = 0

\* The only fault of the run is the loss of the server's FIN-ACK, and it has happened.
FinAckLost == args.discard = inf /\ args.kinds = {"finack"} /\ args.faults = 1 /\ net = 0

\* Both roles have closed: the client on a FIN-ACK, the server after its FIN-ACK.
Completed == c_pc = "closed" /\ s_pc = "closed"

\* The server is past its data loop.
ServerLeft == s_pc \in {"closed", "crashed", "returned"}

\* The sequence numbers in the window.
InWindow == { window_size[i] : i \in DOMAIN window_size }

\* Transmitted by the client and not yet acknowledged to it.
Outstanding == { k \in DOMAIN tx : tx[k] > 0 } \ acked

\* The sequence number a packet carries.
SeqOf(p) == unpack_header(Header(p))[1]

\* ------------------------------------------------------------- claims
\* C1: if the network drops exactly one data-bearing segment once and is otherwise
\* in order with no early timeout, then for every window size and every file of at
\* least one chunk the transfer completes and the output equals the source file.
C1_GBNCorrectness ==
    /\ [](OneDataLost /\ args.chunks >= 1 /\ ServerLeft
            => s_pc = "closed" /\ new_file = SourceFile)
    /\ (OneDataLost /\ args.chunks >= 1) ~> Completed

\* C2: on a lossless in-order channel with no discard value and no early timeout,
\* for every window size and every file, both roles eventually close, and once the
\* server has left its data loop its output equals the source file.
C2_ReliableDelivery ==
    /\ [](NoFaultRun /\ ServerLeft => s_pc = "closed" /\ new_file = SourceFile)
    /\ NoFaultRun ~> (Completed /\ new_file = SourceFile)

C2_Witness ==
    /\ NoFaultRun /\ Completed
    /\ args.chunks >= 2
    /\ new_file = SourceFile

\* C3: if exactly one data acknowledgment is lost and the channel is otherwise
\* reliable, the window head is eventually acknowledged and popped and the
\* transfer completes.
C3_LostAckRecovered ==
    OneAckLost ~> (c_pc = "closed")

\* The payloads of the chunks carried by the sequence numbers ws, concatenated.
RECURSIVE PayloadsOf(_)
PayloadsOf(ws) ==
    IF ws = << >> THEN << >> ELSE Chunk(Head(ws) - 1) \o PayloadsOf(Tail(ws))

\* The last segment the data loop received was processed past the discard hook
\* and carried no FIN.
LastWasData ==
    /\ rcvd.pkt # << >>
    /\ SeqOf(rcvd.pkt) # rcvd.discard
    /\ BitAnd(unpack_header(Header(rcvd.pkt))[3], fin_flag) = 0

\* C4: under any loss, duplication or reordering, the output is the concatenation
\* of the payloads of the accepted data segments in strictly increasing sequence
\* order, and the output changes only on a segment whose sequence number equals
\* the expected counter at its arrival, by that segment's payload.
C4_InOrderDelivery ==
    /\ [](\A i \in 1 .. (Len(written) - 1) : written[i] < written[i + 1])
    /\ [](new_file = PayloadsOf(written))
    /\ [][ new_file' # new_file =>
             /\ SeqOf(rcvd'.pkt) = rcvd'.ack
             /\ new_file' = new_file \o Payload(rcvd'.pkt)
             /\ written' = Append(written, SeqOf(rcvd'.pkt)) ]_vars

\* An out-of-order data segment arrived after two chunks were written.
C4_Witness ==
    /\ LastWasData
    /\ SeqOf(rcvd.pkt) >= 2
    /\ SeqOf(rcvd.pkt) # rcvd.ack
    /\ Len(written) >= 2
    /\ ack = rcvd.ack

\* C5: in every reachable state the payload of each sequence number appears at
\* most once in the output, whatever duplicates and retransmissions arrived.
C5_IdempotentAck ==
    /\ \A i, j \in DOMAIN written : written[i] = written[j] => i = j
    /\ \A i, j \in DOMAIN new_file : new_file[i] = new_file[j] => i = j
    /\ Len(new_file) = Len(written)

\* The last segment received repeats a sequence number already written.
C5_Witness ==
    /\ LastWasData
    /\ SeqOf(rcvd.pkt) >= 2
    /\ SeqOf(rcvd.pkt) < rcvd.ack
    /\ \E i \in DOMAIN written : written[i] = SeqOf(rcvd.pkt)
    /\ ack = rcvd.ack

\* C6: in every reachable state the window holds at most args.window sequence
\* numbers, and they are consecutive integers in increasing order.
C6_WindowBound ==
    /\ Len(window_size) <= args.window
    /\ \A i \in 1 .. (Len(window_size) - 1) : window_size[i + 1] = window_size[i] + 1

\* A full window of at least two entries that has already slid.
C6_Witness ==
    /\ c_pc = "drain"
    /\ args.window >= 2
    /\ Len(window_size) = args.window
    /\ window_size[1] >= 2

\* C7: during data transfer the window holds exactly the sequence numbers
\* transmitted and not yet acknowledged to the client; there are at most
\* args.window of them and the head of the window is the smallest.
C7_WindowComplete ==
    c_pc \in {"loop", "drain"} =>
        /\ InWindow = Outstanding
        /\ Cardinality(Outstanding) <= args.window
        /\ window_size # << >> => \A k \in Outstanding : window_size[1] <= k

\* C8: the server sends at most one acknowledgment per sequence number, every
\* acknowledgment carries its sequence number in both fields (the segment was the
\* expected one when it was acknowledged).
C8_AckGuarantee ==
    /\ \A k \in DOMAIN ackCount : ackCount[k] <= 1
    /\ \A p \in ackLog : p[1] = p[2]

\* Window 1, a 3-chunk file, no fault.
ScenarioA == NoFaultRun /\ args.window = 1 /\ args.chunks = 3

\* C9: in scenario A no data-bearing segment is transmitted twice, each is
\* transmitted only after every earlier one was acknowledged to the client, and
\* at the end each of the sequence numbers 1..4 was transmitted exactly once.
C9_StopAndWait ==
    ScenarioA =>
        /\ \A k \in DOMAIN tx : tx[k] <= 1
        /\ \A k \in DOMAIN tx : tx[k] >= 1 => \A j \in 1 .. (k - 1) : j \in acked
        /\ c_pc = "closed" => \A k \in DOMAIN tx : tx[k] = 1

\* Window 4, a 5-chunk file, discard value 3, no other fault.
ScenarioB == args.window = 4 /\ args.chunks = 5 /\ args.discard = 3 /\ args.faults = 0

\* C10: in scenario B the sequence numbers 3..6 are each retransmitted exactly
\* once, on a timeout, the sequence numbers 1 and 2 never, and the transfer
\* completes with the output equal to the source file.
C10_ScenarioB ==
    /\ [](ScenarioB =>
            \A k \in DOMAIN tx :
                /\ k < 3 => tx[k] <= 1 /\ rto[k] = 0
                /\ k >= 3 => tx[k] <= 2 /\ rto[k] <= 1 /\ (tx[k] = 2 => rto[k] = 1))
    /\ [](ScenarioB /\ c_pc = "closed" =>
            \A k \in DOMAIN tx :
                /\ tx[k] = (IF k < 3 THEN 1 ELSE 2)
                /\ rto[k] = (IF k < 3 THEN 0 ELSE 1))
    /\ [](ScenarioB /\ ServerLeft => s_pc = "closed" /\ new_file = SourceFile)
    /\ ScenarioB ~> Completed

C10_Witness ==
    /\ ScenarioB /\ Completed
    /\ \A k \in 3 .. 6 : tx[k] = 2 /\ rto[k] = 1
    /\ new_file = SourceFile

\* C11: (Scenario D) when the server's FIN-ACK is lost once and nothing else is
\* lost, the client sends exactly one more FIN, two in all, and then closes.
C11_ScenarioD ==
    /\ [](FinAckLost /\ c_pc = "closed" => ctl.fin = 2)
    /\ (FinAckLost ~> c_pc = "closed")

\* C12: (Scenario C) a client whose wait for the SYN-ACK times out ends having
\* sent one SYN and nothing else: no second SYN, no handshake ACK, no data-bearing
\* segment, no FIN; and it sends nothing afterwards.
C12_ScenarioC ==
    /\ [](c_pc = "aborted" /\ seq = 0 =>
            /\ ctl = [ syn |-> 1, hs |-> 0, fin |-> 0 ]
            /\ \A k \in Seqs : tx[k] = 0)
    /\ [][c_pc = "aborted" => UNCHANGED << c_pc, ctl, tx >>]_vars

\* The client gave up while the server's SYN-ACK was lost or still on its way.
C12_Witness == c_pc = "aborted" /\ seq = 0 /\ s_pc = "syn_rcvd" /\ sctl.synack = 1

\* The client sent a data-bearing segment only after the SYN-ACK, which it answers
\* with the handshake ACK on the spot.
DataAfterSynAck == (\E k \in Seqs : tx[k] > 0) => ctl.hs > 0

\* The client sent a FIN only with its window empty.
FinAfterDrain == ctl.fin > 0 => window_size = << >>

\* The server acknowledged or wrote data only in its data loop, which it enters
\* after a SYN (answered by the SYN-ACK) and then a segment with the ACK flag.
DataAfterHandshake ==
    (ackLog # {} \/ new_file # << >> \/ file_name # << >>) =>
        sctl.synack > 0 /\ rcvd.pkt # << >>

\* The server sent a FIN-ACK only on a FIN: the last segment its data loop read.
FinAckAfterFin ==
    sctl.finack > 0 =>
        rcvd.pkt # << >> /\ BitAnd(unpack_header(Header(rcvd.pkt))[3], fin_flag) # 0

\* C13: (phase ordering) the client sends no data-bearing segment before it got a
\* SYN-ACK and no FIN before its window is drained; the server acknowledges and
\* writes nothing before it got a SYN and then an ACK-flagged segment, and sends no
\* FIN-ACK before it got a FIN.
C13_PhaseOrdering ==
    /\ DataAfterSynAck
    /\ FinAfterDrain
    /\ DataAfterHandshake
    /\ FinAckAfterFin

\* This step takes a FIN-ACK out of the client's queue.
GotFinAck ==
    \E i \in DOMAIN toClient :
        /\ toClient[i] # RST
        /\ IsFinAck(toClient[i])
        /\ toClient' = Remove(toClient, i)

\* This step takes the network's report of a dead port out of the client's queue.
GotReset == \E i \in DOMAIN toClient : toClient[i] = RST /\ toClient' = Remove(toClient, i)

\* A timeout in the teardown sends one more FIN and keeps waiting.
FinResent ==
    (c_pc = "fin_wait" /\ OnTimeout) =>
        /\ toServer' = Append(toServer, pack_header(0, 0, fin_flag))
        /\ ctl'.fin = Sat(ctl.fin)
        /\ c_pc' = "fin_wait"

C15_HeaderRoundTrip ==
    /\ codec.pc \in {"packed", "out"} =>
           Len(codec.header) = 6 /\ \A k \in 1 .. 6 : codec.header[k] \in 0 .. 255
    /\ codec.pc = "out" => codec.out = codec.in

\* A header whose three fields all need both of their bytes went round.
C15_Witness ==
    /\ codec.pc = "out"
    /\ codec.in = << 258, MaxField, MaxField >>
    /\ codec.header = << 1, 2, 255, 255, 255, 255 >>

\* This step is a pass of the server's data loop over the segment toServer[i].
Processes(i) == i \in DOMAIN toServer /\ ServerData(i)

\* The segment is not dropped by the discard value and carries no FIN: it reaches
\* the tests on its sequence number.
Ordinary(p) ==
    /\ ~Discarded(SeqOf(p), discard)
    /\ BitAnd(unpack_header(Header(p))[3], fin_flag) = 0

\* This step appends to the client's queue an acknowledgment of sequence k.
SendsAckFor(k) ==
    /\ Len(toClient') = Len(toClient) + 1
    /\ SubSeq(toClient', 1, Len(toClient)) = toClient
    /\ unpack_header(Header(toClient'[Len(toClient')]))[1] = k
    /\ unpack_header(Header(toClient'[Len(toClient')]))[3] = ack_flag

\* C16: (name segment) every time the data loop processes a segment of sequence 1
\* that is neither discarded nor a FIN, a first copy or a retransmitted one, the
\* server sends an acknowledgment for sequence 1, its counter is 2 afterwards and
\* nothing is appended to the output.
C16_NameSegment ==
    [][ \A i \in DOMAIN toServer :
          (Processes(i) /\ Ordinary(toServer[i]) /\ SeqOf(toServer[i]) = 1) =>
              /\ SendsAckFor(1)
              /\ ack' = 2
              /\ new_file' = new_file ]_vars

\* C17: (out-of-order segments) a pass of the data loop over a segment that is no
\* FIN, is not the name segment and whose sequence number differs from the
\* expected counter sends no acknowledgment and leaves the counter, the output
\* and the file name as they were.
C17_OutOfOrderIgnored ==
    [][ \A i \in DOMAIN toServer :
          ( /\ Processes(i)
            /\ BitAnd(unpack_header(Header(toServer[i]))[3], fin_flag) = 0
            /\ SeqOf(toServer[i]) # 1
            /\ SeqOf(toServer[i]) # ack ) =>
              /\ toClient' = toClient
              /\ ack' = ack
              /\ new_file' = new_file
              /\ file_name' = file_name
              /\ UNCHANGED << ackLog, ackCount, written, s_pc >> ]_vars

\* The data loop has just passed over a chunk from ahead of the counter, which
\* the discard value did not drop.
C17_Witness ==
    /\ LastWasData
    /\ SeqOf(rcvd.pkt) > rcvd.ack
    /\ SeqOf(rcvd.pkt) > 1
    /\ ack = rcvd.ack
    /\ s_pc = "data"

\* This step takes out of the client's queue a segment with the ACK flag whose
\* seq and ack fields both equal k.
GotAckOf(k) ==
    \E i \in DOMAIN toClient :
        /\ toClient[i] # RST
        /\ unpack_header(Header(toClient[i]))[1] = k
        /\ unpack_header(Header(toClient[i]))[2] = k
        /\ BitAnd(unpack_header(Header(toClient[i]))[3], ack_flag) # 0
        /\ toClient' = Remove(toClient, i)

\* C18: (window slide by one) in the drain phase the window and the packet store
\* change only together, by the removal of the window's head from both, and only
\* in a step that receives a segment with the ACK flag whose seq and ack fields
\* both equal that head; no other step of the drain phase removes anything.
C18_SlideByOne ==
    [][ (c_pc = "drain" /\ (window_size' # window_size \/ packet_dict' # packet_dict)) =>
            /\ window_size # << >>
            /\ window_size' = Tail(window_size)
            /\ DOMAIN packet_dict' = DOMAIN packet_dict \ {Head(window_size)}
            /\ \A k \in DOMAIN packet_dict' : packet_dict'[k] = packet_dict[k]
            /\ GotAckOf(Head(window_size)) ]_vars

\* Two acknowledgments have each slid the window by one; the last chunk is left.
C18_Witness ==
    /\ c_pc = "drain"
    /\ acked = {1, 2}
    /\ window_size = << 3 >>
    /\ DOMAIN packet_dict = {3}

\* The bytes of the first transmission of sequence number k: the header the send
\* loop packs, then the file name (k = 1) or chunk k - 1.
FirstSent(k) == pack_header(k, 0, ack_flag) \o (IF k = 1 THEN NameBytes ELSE Chunk(k - 1))

\* This step receives, in the drain loop, a segment with the ACK flag whose seq
\* and ack fields do not both equal the head of the window.
GotOtherAck ==
    \E i \in DOMAIN toClient :
        /\ ClientAck(i)
        /\ BitAnd(unpack_header(Header(toClient[i]))[3], ack_flag) # 0
        /\ ~ ( /\ unpack_header(Header(toClient[i]))[1] = Head(window_size)
               /\ unpack_header(Header(toClient[i]))[2] = Head(window_size) )

\* C19: (Go-Back-N retransmission) on every timeout of the drain loop and on
\* every acknowledgment received there that does not match the head of the
\* window, the client sends every sequence number of the window once more, in
\* window order, with the bytes of its first transmission, sends nothing else,
\* and leaves the window and the packet store as they were.
C19_GoBackN ==
    [][ (c_pc = "drain" /\ (OnTimeout \/ GotOtherAck)) =>
            /\ toServer' = toServer \o
                    [ j \in 1 .. Len(window_size) |-> FirstSent(window_size[j]) ]
            /\ window_size' = window_size
            /\ packet_dict' = packet_dict ]_vars

\* Chunks 1 and 2 (sequence 2 and 3) fill the rest of the window and have both
\* been sent a second time.
C19_Witness ==
    /\ c_pc = "drain"
    /\ window_size = << 2, 3 >>
    /\ tx[2] = 2
    /\ tx[3] = 2

\* This step is a pass of the data loop over a segment of sequence number k.
ProcessesSeq(k) == \E i \in DOMAIN toServer : Processes(i) /\ SeqOf(toServer[i]) = k

\* C20: (discard-once) while the configured discard value d is set, a segment of
\* sequence d received in the data loop is dropped: no acknowledgment, no write,
\* no change of the expected counter; that drop clears the value for good, and
\* nothing else does, so that at most one segment is dropped; a later segment of
\* sequence d is handled like any other: acknowledged and written when in order.
C20_DiscardOnce ==
    /\ [](discard \in {args.discard, inf})
    /\ [][ /\ discard = inf => discard' = inf
           /\ (discard # inf /\ ProcessesSeq(discard)) =>
                  /\ discard' = inf
                  /\ toClient' = toClient
                  /\ UNCHANGED << s_pc, ack, new_file, file_name, ackLog, written >>
           /\ discard' # discard => ProcessesSeq(discard)
           /\ (args.discard > 1 /\ discard = inf
                 /\ ack = args.discard /\ ProcessesSeq(args.discard)) =>
                  /\ SendsAckFor(args.discard)
                  /\ written' = Append(written, args.discard)
                  /\ ack' = Bump(ack) ]_vars

\* The first copy of chunk 1 (sequence 2) was dropped by the discard value, a
\* later copy has been written.
C20_Witness ==
    /\ args.discard = 2
    /\ discard = inf
    /\ tx[2] >= 2
    /\ written = << 2 >>

\* C21: (peer gone is fatal) when the network's report of a dead port reaches the
\* client while it waits for the SYN-ACK or for an acknowledgment in the drain
\* loop, the client ends at once and sends nothing in that step or later: no
\* window again, no new data segment, no FIN.
C21_PeerGoneFatal ==
    [][ /\ (c_pc \in {"syn_sent", "drain"} /\ GotReset) =>
              /\ c_pc' = "aborted"
              /\ toServer' = toServer
              /\ UNCHANGED << ctl, tx, seq, window_size, packet_dict >>
        /\ c_pc = "aborted" =>
              UNCHANGED << c_pc, ctl, tx, seq, window_size, packet_dict >> ]_vars

\* The client ended inside the drain loop, where only the report of a dead port
\* ends it, with the name segment still in its window.
C21_Witness == c_pc = "aborted" /\ seq >= 2 /\ window_size # << >> /\ ctl.fin = 0

\* This step takes a segment out of the server's queue, with the SYN flag (yes)
\* or without it.
FirstSegment(yes) ==
    \E i \in DOMAIN toServer :
        /\ ServerSyn(i)
        /\ (BitAnd(unpack_header(Header(toServer[i]))[3], syn_flag) # 0) = yes

\* C22: (unexpected opening segment) a server whose first segment has no SYN flag
\* sends no SYN-ACK and is through: it neither enters the data phase nor waits
\* for another segment; and in every run the server sends at most one SYN-ACK,
\* and only on a first segment with the SYN flag.
C22_OpeningSegment ==
    /\ [](sctl.synack <= 1)
    /\ [][ /\ FirstSegment(FALSE) =>
                  s_pc' = "returned" /\ toClient' = toClient /\ sctl' = sctl
           /\ s_pc = "returned" => UNCHANGED serverVars
           /\ sctl'.synack # sctl.synack => FirstSegment(TRUE) ]_vars

\* The server is through on a stray first segment; the client's SYN came after.
C22_Witness ==
    /\ s_pc = "returned"
    /\ sctl.synack = 0
    /\ rcvd.pkt = << >>
    /\ ctl.syn = 1

\* C23: (completion implies integrity) when segments are lost, in either
\* direction, and nothing else goes wrong: once the server has left its data loop
\* on a FIN its output is the whole source file, and the client sends no FIN
\* while a chunk it has sent is not yet written by the server.
C23_CompletionIntegrity ==
    args.discard = inf =>
        /\ sctl.finack > 0 => new_file = SourceFile
        /\ ctl.fin > 0 =>
              \A k \in 2 .. (last_loop + 1) : tx[k] > 0 => \E j \in DOMAIN written : written[j] = k

\* The network only loses and delays; no discard value is set.
LossOnly == args.kinds = LossKinds /\ args.discard = inf

\* The server's output is the first k chunks of the source file, for some k.
IsPrefix == \E k \in 0 .. last_loop : new_file = SubSeq(SourceFile, 1, k)

\* C24: (output is a prefix of the source) under any interleaving of lost
\* segments, late acknowledgments, early client timeouts and the retransmissions
\* of the window they cause, the name segment included, the server's output is
\* in every state the first k chunks of the source for some k: no chunk is skipped.
C24_OutputIsPrefix == LossOnly => IsPrefix

\* C25: (packet store matches the window) while the client transfers data, for
\* every window size, the keys of the packet store are the sequence numbers of
\* the window: the store holds at most window entries and no acknowledged one.
C25_StoreMatchesWindow ==
    c_pc \in {"loop", "drain"} =>
        /\ DOMAIN packet_dict = { window_size[j] : j \in DOMAIN window_size }
        /\ Cardinality(DOMAIN packet_dict) <= args.window
        /\ acked \cap DOMAIN packet_dict = {}

====
